---- MODULE Spec2Model ----
(***************************************************************************)
(* The adaptive assessment engine of frontend/src/lib/test-engine.ts       *)
(* (class TestEngine) as a state machine: one engine, its template and     *)
(* its session, driven by the public methods of the class.                 *)
(*                                                                         *)
(* Conventions.                                                            *)
(*  - A JavaScript number is a record [nan, n]; the model only produces    *)
(*    integers and NaN (parseInt of a string without leading digits).      *)
(*  - A response value (number | string) is a record [str, n, s]: a        *)
(*    number n, or a string s given as a sequence of one-character         *)
(*    strings.                                                             *)
(*  - session.start_time and session.last_activity (Date.now()) are not    *)
(*    modelled: no operation reads them.                                   *)
(*  - branching_state.skipped_questions and conditional_paths only grow in *)
(*    the code and are never read by it; the model keeps their first       *)
(*    MaxSkippedLen / MaxPathsLen entries.                                 *)
(*  - a conditional path `${a}->${b}` is the pair <<a, b>>.                *)
(***************************************************************************)
EXTENDS Integers, Sequences, FiniteSets, TLC

VARIABLES template, session, ret, snapshot

vars == <<template, session, ret, snapshot>>

(***************************************************************************)
(* Bounds of the model.                                                    *)
(***************************************************************************)
MaxValue == 2
MaxSkippedLen == 3
MaxPathsLen == 1
MaxWeight == 2
MaxIndicators == 2
MaxResponses == 4

MaxSharedResponses == 2

MaxLibraryAnswer == 1

(***************************************************************************)
(* JavaScript numbers.                                                     *)
(***************************************************************************)
NaN == [nan |-> TRUE, n |-> 0]

Num(i) == [nan |-> FALSE, n |-> i]

Geq(a, b) == ~a.nan /\ ~b.nan /\ a.n >= b.n

Leq(a, b) == ~a.nan /\ ~b.nan /\ a.n <= b.n

Lt(a, b) == ~a.nan /\ ~b.nan /\ a.n < b.n

Add(a, b) == IF a.nan \/ b.nan THEN NaN ELSE Num(a.n + b.n)

Sub(a, b) == IF a.nan \/ b.nan THEN NaN ELSE Num(a.n - b.n)

Mul(a, b) == IF a.nan \/ b.nan THEN NaN ELSE Num(a.n * b.n)

(***************************************************************************)
(* Response values: number | string.                                       *)
(***************************************************************************)
NumberValue(i) == [str |-> FALSE, n |-> i, s |-> <<>>]

StringValue(s) == [str |-> TRUE, n |-> 0, s |-> s]

DigitChars == <<"0", "1", "2", "3", "4", "5", "6", "7", "8", "9">>

IsDigit(c) == \E d \in 1..Len(DigitChars) : DigitChars[d] = c

DigitVal(c) == (CHOOSE d \in 1..Len(DigitChars) : DigitChars[d] = c) - 1

\* The value of the longest run of digits of s that starts at position i,
\* continuing the value acc read so far.
RECURSIVE ParseDigits(_, _, _)
ParseDigits(s, i, acc) ==
  IF i > Len(s) \/ ~IsDigit(s[i]) THEN acc
  ELSE ParseDigits(s, i + 1, acc * 10 + DigitVal(s[i]))

RECURSIVE SkipSpaces(_, _)
SkipSpaces(s, i) ==
  IF i <= Len(s) /\ s[i] = " " THEN SkipSpaces(s, i + 1) ELSE i

\* parseInt(string) in radix 10: leading white space, an optional sign, then
\* the longest run of digits; NaN when there is no digit there.
parseInt(s) ==
  LET i == SkipSpaces(s, 1)
      signed == i <= Len(s) /\ s[i] \in {"-", "+"}
      j == IF signed THEN i + 1 ELSE i
      mag == ParseDigits(s, j, 0)
  IN  IF j > Len(s) \/ ~IsDigit(s[j]) THEN NaN
      ELSE IF signed /\ s[i] = "-" THEN Num(0 - mag) ELSE Num(mag)

\* typeof value === 'string' ? parseInt(value) : value
ToNumber(v) == IF v.str THEN parseInt(v.s) ELSE Num(v.n)

(***************************************************************************)
(* Sequences.                                                              *)
(***************************************************************************)
RECURSIVE SumSeq(_)
SumSeq(s) == IF s = <<>> THEN 0 ELSE s[1] + SumSeq(Tail(s))

SeqToSet(s) == {s[i] : i \in 1..Len(s)}

\* Array.prototype.push on a list of which the model keeps the first `cap`
\* entries.
PushCapped(list, x, cap) == IF Len(list) < cap THEN Append(list, x) ELSE list

RECURSIVE PushAllCapped(_, _, _)
PushAllCapped(list, xs, cap) ==
  IF xs = <<>> THEN list
  ELSE PushAllCapped(PushCapped(list, xs[1], cap), Tail(xs), cap)

\* Mutation of SortByOrder: the questions left in array order.
Unsorted(qs) == qs

\* Array.prototype.sort((a, b) => a.order - b.order): a stable sort.
RECURSIVE SortByOrder(_)
SortByOrder(qs) ==
  IF qs = <<>> THEN <<>>
  ELSE LET n == Len(qs)
           q == qs[n]
           rest == SortByOrder(SubSeq(qs, 1, n - 1))
           k == Cardinality({i \in 1..Len(rest) : rest[i].order <= q.order})
       IN  SubSeq(rest, 1, k) \o <<q>> \o SubSeq(rest, k + 1, Len(rest))

(***************************************************************************)
(* Template model (types/tests.ts).                                        *)
(* show_if_question_id = 0 stands for an absent (undefined) id; question   *)
(* ids are positive.                                                       *)
(***************************************************************************)
\* nOptions < 0 stands for a question without an options array, dimension ""
\* for one without a dimension_pair.
TestQuestion(id, order, min, max, weight, type, nOptions, required, reverse, showIfId, showIfValue, dimension) ==
  [id |-> id, order |-> order, min_value |-> min, max_value |-> max,
   weight |-> weight, question_type |-> type, dimension_pair |-> dimension,
   has_options |-> nOptions >= 0, options_length |-> nOptions,
   required |-> required, reverse_scored |-> reverse,
   show_if_question_id |-> showIfId,
   has_show_if_value |-> showIfId # 0, show_if_value |-> showIfValue]

RiskIndicator(ids, thresholds, level) ==
  [question_ids |-> ids, threshold_values |-> thresholds, risk_level |-> level]

ScoreRange(min, max, label) ==
  [min_score |-> min, max_score |-> max, label |-> label]

TestTemplate(key, branching, questions, scoringType, dimensions, normalization, ranges, indicators) ==
  [key |-> key, branching_enabled |-> branching, questions |-> questions,
   scoring_rules |-> [type |-> scoringType, dimensions |-> dimensions,
                      normalization_method |-> normalization],
   interpretation_guide |-> [score_ranges |-> ranges,
                             risk_indicators |-> indicators]]

TestResponse(qid, value, skipped) ==
  [question_id |-> qid, value |-> value, skipped |-> skipped]

\* The session a new TestEngine starts with.
NewSession ==
  [current_question |-> 0,
   responses |-> <<>>,
   branching_state |-> [active_conditions |-> <<>>,
                        skipped_questions |-> <<>>,
                        conditional_paths |-> <<>>]]

(***************************************************************************)
(* Branching controller.                                                   *)
(***************************************************************************)
\* Mutation of evaluateBranchingCondition: > in place of >=.
evaluateBranchingConditionStrict(responseValue, conditionValue) ==
  IF responseValue.str
  THEN Lt(Num(conditionValue), parseInt(responseValue.s))
  ELSE responseValue.n > conditionValue

evaluateBranchingCondition(responseValue, conditionValue) ==
  IF responseValue.str
  THEN Geq(parseInt(responseValue.s), Num(conditionValue))
  ELSE responseValue.n >= conditionValue

shouldShowQuestion(s, question) ==
  IF question.show_if_question_id = 0 \/ ~question.has_show_if_value THEN TRUE
  ELSE LET found == {i \in 1..Len(s.responses) :
                       s.responses[i].question_id = question.show_if_question_id}
       IN  IF found = {} THEN FALSE
           ELSE LET first == CHOOSE i \in found : \A j \in found : i <= j
                IN  evaluateBranchingCondition(s.responses[first].value,
                                               question.show_if_value)

\* getVisibleQuestions(): the list returned, and the template and session it
\* leaves: the questions array is sorted in place, and with branching every
\* hidden question's id is pushed onto skipped_questions.
getVisibleQuestions(t, s) ==
  LET shown(q) == shouldShowQuestion(s, q)
      hidden(q) == ~shouldShowQuestion(s, q)
      hiddenIds(hiddenQs) == [i \in 1..Len(hiddenQs) |-> hiddenQs[i].id]
      filtered(allQuestions) ==
        IF ~t.branching_enabled
        THEN [value |-> allQuestions,
              template |-> [t EXCEPT !.questions = allQuestions],
              session |-> s]
        ELSE [value |-> SelectSeq(allQuestions, shown),
              template |-> [t EXCEPT !.questions = allQuestions],
              session |-> [s EXCEPT !.branching_state.skipped_questions =
                             PushAllCapped(@,
                               hiddenIds(SelectSeq(allQuestions, hidden)),
                               MaxSkippedLen)]]
  IN  filtered(SortByOrder(t.questions))

\* getCurrentQuestion(): isNull, or the question at value.
getCurrentQuestion(t, s) ==
  LET at(g) ==
        IF s.current_question >= Len(g.value)
        THEN [isNull |-> TRUE, value |-> 0,
              template |-> g.template, session |-> g.session]
        ELSE [isNull |-> FALSE, value |-> g.value[s.current_question + 1],
              template |-> g.template, session |-> g.session]
  IN  at(getVisibleQuestions(t, s))

(***************************************************************************)
(* Response validator.                                                     *)
(***************************************************************************)
validateResponse(question, response) ==
  IF response.str
  THEN IF question.question_type = "choice" /\ question.has_options
       THEN LET index == parseInt(response.s)
            IN  Geq(index, Num(0)) /\ Lt(index, Num(question.options_length))
       ELSE TRUE
  ELSE response.n >= question.min_value /\ response.n <= question.max_value

(***************************************************************************)
(* Session operations.  Each returns [outcome, template, session]:         *)
(* outcome "true" / "false" is the value returned, "throw" an Error.       *)
(***************************************************************************)
\* active_conditions[id] = value on a Record<number, any>, kept as a
\* function on the set of its keys.
SetKey(f, k, v) == [x \in (DOMAIN f) \cup {k} |-> IF x = k THEN v ELSE f[x]]

DeleteKey(f, k) == [x \in (DOMAIN f) \ {k} |-> f[x]]

updateBranchingState(t, s, question, response) ==
  LET affected(q) == q.show_if_question_id = question.id
      affectedQuestions == SelectSeq(t.questions, affected)
      taken(q) == evaluateBranchingCondition(response,
                    IF q.has_show_if_value THEN q.show_if_value ELSE 0)
      takenQs == SelectSeq(affectedQuestions, taken)
      pathKeys == [i \in 1..Len(takenQs) |-> <<question.id, takenQs[i].id>>]
  IN  [s EXCEPT
         !.branching_state.active_conditions = SetKey(@, question.id, response),
         !.branching_state.conditional_paths =
             PushAllCapped(@, pathKeys, MaxPathsLen)]

\* Mutation of answerQuestion: current_question is not advanced.
answerQuestionInPlace(t, s, response) ==
  LET recorded(cur) ==
        [cur.session EXCEPT !.responses =
           Append(@, TestResponse(cur.value.id, response, FALSE))]
      answer(cur) ==
        IF cur.isNull
        THEN [outcome |-> "false", template |-> cur.template,
              session |-> cur.session]
        ELSE IF ~validateResponse(cur.value, response)
        THEN [outcome |-> "throw", template |-> cur.template,
              session |-> cur.session]
        ELSE [outcome |-> "true", template |-> cur.template,
              session |-> updateBranchingState(cur.template, recorded(cur),
                                               cur.value, response)]
  IN  answer(getCurrentQuestion(t, s))

answerQuestion(t, s, response) ==
  LET recorded(cur) ==
        [cur.session EXCEPT !.responses =
           Append(@, TestResponse(cur.value.id, response, FALSE))]
      answer(cur) ==
        IF cur.isNull
        THEN [outcome |-> "false", template |-> cur.template,
              session |-> cur.session]
        ELSE IF ~validateResponse(cur.value, response)
        THEN [outcome |-> "throw", template |-> cur.template,
              session |-> cur.session]
        ELSE [outcome |-> "true", template |-> cur.template,
              session |-> [updateBranchingState(cur.template, recorded(cur),
                                                cur.value, response)
                             EXCEPT !.current_question = @ + 1]]
  IN  answer(getCurrentQuestion(t, s))

\* Mutation of skipQuestion: the required check left out.
skipQuestionAny(t, s) ==
  LET skip(cur) ==
        IF cur.isNull
        THEN [outcome |-> "false", template |-> cur.template,
              session |-> cur.session]
        ELSE [outcome |-> "true", template |-> cur.template,
              session |-> [cur.session EXCEPT
                             !.responses = Append(@,
                                TestResponse(cur.value.id, NumberValue(0), TRUE)),
                             !.current_question = @ + 1]]
  IN  skip(getCurrentQuestion(t, s))

skipQuestion(t, s) ==
  LET skip(cur) ==
        IF cur.isNull \/ cur.value.required
        THEN [outcome |-> "false", template |-> cur.template,
              session |-> cur.session]
        ELSE [outcome |-> "true", template |-> cur.template,
              session |-> [cur.session EXCEPT
                             !.responses = Append(@,
                                TestResponse(cur.value.id, NumberValue(0), TRUE)),
                             !.current_question = @ + 1]]
  IN  skip(getCurrentQuestion(t, s))

previousQuestion(t, s) ==
  IF s.current_question <= 0
  THEN [outcome |-> "false", template |-> t, session |-> s,
        reassigned |-> FALSE]
  ELSE LET moved == [s EXCEPT !.current_question = @ - 1]
           revert(g) ==
             LET questionToRevert == g.value[moved.current_question + 1]
                 keep(r) == r.question_id # questionToRevert.id
             IN  IF moved.current_question < Len(g.value)
                 THEN [outcome |-> "true", template |-> g.template,
                       session |-> [g.session EXCEPT
                          !.responses = SelectSeq(@, keep),
                          !.branching_state.active_conditions =
                              DeleteKey(@, questionToRevert.id)],
                       reassigned |-> TRUE]
                 ELSE [outcome |-> "true", template |-> g.template,
                       session |-> g.session, reassigned |-> FALSE]
       IN  revert(getVisibleQuestions(t, moved))

isComplete(t, s) ==
  LET required(q) == q.required
      answered(q) == \E i \in 1..Len(s.responses) :
                       /\ s.responses[i].question_id = q.id
                       /\ ~s.responses[i].skipped
      allAnswered(requiredQuestions) ==
        Len(SelectSeq(requiredQuestions, answered)) = Len(requiredQuestions)
      complete(g) ==
        [value |-> allAnswered(SelectSeq(g.value, required)),
         template |-> g.template, session |-> g.session]
  IN  complete(getVisibleQuestions(t, s))

\* getProgress(): Math.round(current_question / visible.length * 100).
getProgress(t, s) ==
  LET rounded(n) == IF n = 0 THEN 100
                    ELSE (200 * s.current_question + n) \div (2 * n)
      progress(g) == [value |-> rounded(Len(g.value)),
                      template |-> g.template, session |-> g.session]
  IN  progress(getVisibleQuestions(t, s))

(***************************************************************************)
(* Scores.  raw / max * 100 is kept as the exact fraction num / den        *)
(* (den > 0), or as NaN or an infinity when the divisor is 0.              *)
(***************************************************************************)
Fraction(num, den) == [kind |-> "fin", num |-> num, den |-> den]

NotANumber == [kind |-> "nan", num |-> 0, den |-> 1]

\* a / b * k for a JavaScript number a and integers b, k > 0.
DivTimes(a, b, k) ==
  IF a.nan THEN NotANumber
  ELSE IF b = 0
       THEN IF a.n = 0 THEN NotANumber
            ELSE [kind |-> IF a.n > 0 THEN "inf" ELSE "ninf", num |-> 0, den |-> 1]
       ELSE IF b > 0 THEN Fraction(a.n * k, b) ELSE Fraction(0 - a.n * k, 0 - b)

\* score >= k, score <= k, score < k for an integer k.
ScoreGeq(x, k) == x.kind = "inf" \/ (x.kind = "fin" /\ x.num >= k * x.den)

ScoreLeq(x, k) == x.kind = "ninf" \/ (x.kind = "fin" /\ x.num <= k * x.den)

ScoreLt(x, k) == x.kind = "ninf" \/ (x.kind = "fin" /\ x.num < k * x.den)

ScoreEq(x, k) == x.kind = "fin" /\ x.num = k * x.den

FindQuestion(t, id) ==
  LET found == {i \in 1..Len(t.questions) : t.questions[i].id = id}
  IN  IF found = {} THEN 0 ELSE CHOOSE i \in found : \A j \in found : i <= j

\* Mutation of ScoredValue: reverse scoring left out.
ScoredValueNoReverse(question, response) ==
  Mul(ToNumber(response.value), Num(question.weight))

\* The value a response contributes: reverse scoring applied, times weight.
ScoredValue(question, response) ==
  LET value == ToNumber(response.value)
      effective == IF question.reverse_scored
                   THEN Add(Sub(Num(question.max_value), value),
                            Num(question.min_value))
                   ELSE value
  IN  Mul(effective, Num(question.weight))

\* The loop of calculateSimpleSum over the first n responses.
RECURSIVE SimpleSumLoop(_, _, _)
SimpleSumLoop(t, responses, n) ==
  IF n = 0 THEN Num(0)
  ELSE LET sofar == SimpleSumLoop(t, responses, n - 1)
           response == responses[n]
           qi == FindQuestion(t, response.question_id)
       IN  IF response.skipped THEN sofar
           ELSE IF qi = 0 \/ t.questions[qi].weight = 0 THEN sofar
           ELSE Add(sofar, ScoredValue(t.questions[qi], response))

maxPossibleScore(t) ==
  SumSeq([i \in 1..Len(t.questions) |-> t.questions[i].max_value])

getInterpretation(score, ranges) ==
  LET hit == {i \in 1..Len(ranges) :
                ScoreGeq(score, ranges[i].min_score)
                /\ ScoreLeq(score, ranges[i].max_score)}
  IN  IF hit = {} THEN "Unknown"
      ELSE ranges[CHOOSE i \in hit : \A j \in hit : i <= j].label

calculateSimpleSum(t, s) ==
  LET normalized(rawScore) ==
        IF t.scoring_rules.normalization_method = "percentage"
        THEN DivTimes(rawScore, maxPossibleScore(t), 100)
        ELSE DivTimes(rawScore, 1, 1)
      results(rawScore, normalizedScore) ==
        [raw_score |-> DivTimes(rawScore, 1, 1),
         normalized_score |-> normalizedScore,
         dimension_scores |-> <<>>,
         interpretation |->
           getInterpretation(normalizedScore,
                             t.interpretation_guide.score_ranges),
         risk_level |-> "low",
         follow_up_suggested |-> FALSE]
      scored(rawScore) == results(rawScore, normalized(rawScore))
  IN  scored(SimpleSumLoop(t, s.responses, Len(s.responses)))

calculateWeightedSum(t, s) == calculateSimpleSum(t, s)

(***************************************************************************)
(* Risk assessor.                                                          *)
(***************************************************************************)
\* indicator.threshold_values[i] || indicator.threshold_values[0], for the
\* 0-based i: NaN stands for undefined (every comparison with it is false).
ThresholdAt(indicator, i) ==
  LET tv == indicator.threshold_values
  IN  IF i < Len(tv) /\ tv[i + 1] # 0 THEN Num(tv[i + 1])
      ELSE IF Len(tv) > 0 THEN Num(tv[1]) ELSE NaN

riskTriggered(s, indicator) ==
  LET relevant(r) == /\ r.question_id \in SeqToSet(indicator.question_ids)
                     /\ ~r.skipped
      relevantResponses == SelectSeq(s.responses, relevant)
  IN  \E i \in 0..(Len(relevantResponses) - 1) :
        Geq(ToNumber(relevantResponses[i + 1].value), ThresholdAt(indicator, i))

\* The loop of assessRisk from indicator k on, highestRisk being the level
\* accumulated so far.
RECURSIVE AssessRiskLoop(_, _, _, _)
AssessRiskLoop(s, indicators, k, highestRisk) ==
  IF k > Len(indicators) THEN highestRisk
  ELSE IF riskTriggered(s, indicators[k])
       THEN IF indicators[k].risk_level = "high" THEN "high"
            ELSE IF indicators[k].risk_level = "moderate" /\ highestRisk = "low"
                 THEN AssessRiskLoop(s, indicators, k + 1, "moderate")
                 ELSE AssessRiskLoop(s, indicators, k + 1, highestRisk)
       ELSE AssessRiskLoop(s, indicators, k + 1, highestRisk)

\* Mutation of assessRisk: no early return, the level of the last indicator
\* that fires is the result.
assessRiskLastFired(s, indicators) ==
  LET fired == {k \in 1..Len(indicators) : riskTriggered(s, indicators[k])}
  IN  IF fired = {} THEN "low"
      ELSE indicators[CHOOSE k \in fired : \A j \in fired : j <= k].risk_level

assessRisk(s, indicators) == AssessRiskLoop(s, indicators, 1, "low")

(***************************************************************************)
(* Dimensional and categorical scoring.                                    *)
(***************************************************************************)
PointScale == 5

RECURSIVE DimensionLoop(_, _, _, _)
DimensionLoop(t, responses, n, dimension) ==
  IF n = 0 THEN Num(0)
  ELSE LET sofar == DimensionLoop(t, responses, n - 1, dimension)
           response == responses[n]
           qi == FindQuestion(t, response.question_id)
       IN  IF response.skipped THEN sofar
           ELSE IF qi = 0 \/ t.questions[qi].dimension_pair # dimension THEN sofar
           ELSE Add(sofar, ScoredValue(t.questions[qi], response))

RECURSIVE SumNums(_, _)
SumNums(f, keys) ==
  IF keys = {} THEN Num(0)
  ELSE LET k == CHOOSE x \in keys : TRUE
       IN  Add(f[k], SumNums(f, keys \ {k}))

calculateDimensionalScore(t, s) ==
  LET dimensions == t.scoring_rules.dimensions
      named == SeqToSet(dimensions) \ {""}
      dimensionScores ==
        [d \in named |-> DimensionLoop(t, s.responses, Len(s.responses), d)]
      isMax(i) == /\ dimensions[i] \in named
                  /\ \A d \in named : Geq(dimensionScores[dimensions[i]],
                                          dimensionScores[d])
      dominant == {i \in 1..Len(dimensions) : isMax(i)}
      total == SumNums(dimensionScores, named)
      normalizedScore == DivTimes(total, PointScale * Len(dimensions), 100)
  IN  [raw_score |-> DivTimes(total, Len(dimensions), 1),
       normalized_score |-> normalizedScore,
       dimension_scores |-> dimensionScores,
       interpretation |->
         IF dominant = {} THEN "Unknown"
         ELSE dimensions[CHOOSE i \in dominant : \A j \in dominant : i <= j],
       risk_level |-> "low",
       follow_up_suggested |-> FALSE]

calculateCategoricalScore(t, s) == calculateDimensionalScore(t, s)

\* What a call that returns no result leaves as its value.
NoValue == [none |-> TRUE]

(***************************************************************************)
(* calculateResults(): outcome "throw" for an incomplete test or an        *)
(* unsupported scoring type, else "true" with the TestResults at value.    *)
(***************************************************************************)
FollowUpBelow == 50

\* Mutation of calculateResults: the reverse scored value of a response is
\* stored back into the response.
calculateResultsStoring(t, s) ==
  LET type == t.scoring_rules.type
      supported == type \in {"simple_sum", "weighted_sum", "dimensional",
                             "categorical"}
      reversed(r) ==
        LET qi == FindQuestion(t, r.question_id)
        IN  IF qi # 0 /\ ~r.skipped /\ ~r.value.str
               /\ t.questions[qi].reverse_scored
            THEN [r EXCEPT !.value = NumberValue(t.questions[qi].max_value
                               - r.value.n + t.questions[qi].min_value)]
            ELSE r
      stored(ss) ==
        [ss EXCEPT !.responses = [j \in 1..Len(@) |-> reversed(@[j])]]
      scored(c) ==
        CASE type = "simple_sum" -> calculateSimpleSum(c.template, c.session)
          [] type = "weighted_sum" -> calculateWeightedSum(c.template, c.session)
          [] type = "dimensional" -> calculateDimensionalScore(c.template, c.session)
          [] type = "categorical" -> calculateCategoricalScore(c.template, c.session)
      assessed(results, risk) ==
        [results EXCEPT
           !.risk_level = risk,
           !.follow_up_suggested =
              risk = "high" \/ ScoreLt(results.normalized_score, FollowUpBelow)]
      calculated(c) ==
        IF ~c.value \/ ~supported
        THEN [outcome |-> "throw", value |-> NoValue,
              template |-> c.template, session |-> c.session]
        ELSE [outcome |-> "true",
              value |-> assessed(scored(c),
                          assessRisk(c.session,
                                     t.interpretation_guide.risk_indicators)),
              template |-> c.template, session |-> stored(c.session)]
  IN  calculated(isComplete(t, s))

calculateResults(t, s) ==
  LET type == t.scoring_rules.type
      supported == type \in {"simple_sum", "weighted_sum", "dimensional",
                             "categorical"}
      scored(c) ==
        CASE type = "simple_sum" -> calculateSimpleSum(c.template, c.session)
          [] type = "weighted_sum" -> calculateWeightedSum(c.template, c.session)
          [] type = "dimensional" -> calculateDimensionalScore(c.template, c.session)
          [] type = "categorical" -> calculateCategoricalScore(c.template, c.session)
      assessed(results, risk) ==
        [results EXCEPT
           !.risk_level = risk,
           !.follow_up_suggested =
              risk = "high" \/ ScoreLt(results.normalized_score, FollowUpBelow)]
      calculated(c) ==
        IF ~c.value \/ ~supported
        THEN [outcome |-> "throw", value |-> NoValue,
              template |-> c.template, session |-> c.session]
        ELSE [outcome |-> "true",
              value |-> assessed(scored(c),
                          assessRisk(c.session,
                                     t.interpretation_guide.risk_indicators)),
              template |-> c.template, session |-> c.session]
  IN  calculated(isComplete(t, s))

(***************************************************************************)
(* The calls a caller can make on the engine.  ret is the last call: its   *)
(* name, its outcome and the value it returned.                            *)
(***************************************************************************)
\* A numeric string, beyond the range of every question of the templates.
StrInputs == {<<"9">>}

\* The library templates are driven through the TestTaker page, whose
\* QuestionComponent passes numbers only (an option index, a slider value).
PageDriven == {"who5", "gad7", "phq9", "pss"}

\* The answers tried on a template: every number from one below the least
\* min_value to one above the greatest max_value, and the strings above.
Inputs(t) ==
  LET mins == {t.questions[i].min_value : i \in 1..Len(t.questions)}
      maxs == {t.questions[i].max_value : i \in 1..Len(t.questions)}
      lo == CHOOSE m \in mins : \A x \in mins : m <= x
      hi == CHOOSE m \in maxs : \A x \in maxs : m >= x
  IN  {NumberValue(i) : i \in (lo - 1)..(hi + 1)}
        \cup IF t.key \in PageDriven THEN {}
             ELSE {StringValue(s) : s \in StrInputs}

\* snapshot is the session object held outside the engine: the value that
\* getSession() returned, which is also the session of another engine that
\* was given it through restoreSession().  Both are shallow copies
\* ({ ...session }): current_question is copied, while responses and
\* branching_state are the very array and object of the engine, until the
\* engine assigns a new array to its responses (sameResponses).
NoSnapshot ==
  [taken |-> FALSE, current_question |-> 0, responses |-> <<>>,
   branching_state |-> NewSession.branching_state, sameResponses |-> FALSE]

\* The snapshot after a call that returned r: the pushes, assignments and
\* deletions made in place show in it, and the filter of previousQuestion,
\* which assigns a new array, leaves it the old one.
Held(op, r) ==
  LET reassigned == op = "previousQuestion" /\ r.reassigned
  IN  IF ~snapshot.taken THEN snapshot
      ELSE [snapshot EXCEPT
              !.branching_state = r.session.branching_state,
              !.responses = IF snapshot.sameResponses /\ ~reassigned
                            THEN r.session.responses ELSE @,
              !.sameResponses = @ /\ ~reassigned]

\* The state after a call that returned r, with the value kept of it.
Return(op, r, value) ==
  /\ template' = r.template
  /\ session' = r.session
  /\ ret' = [op |-> op, outcome |-> r.outcome, value |-> value]
  /\ snapshot' = Held(op, r)

AnswerQuestion(response) ==
  Return("answerQuestion", answerQuestion(template, session, response),
         NoValue)

SkipQuestion ==
  Return("skipQuestion", skipQuestion(template, session), NoValue)

PreviousQuestion ==
  Return("previousQuestion", previousQuestion(template, session), NoValue)

\* getCurrentQuestion(), isComplete() and getProgress() change the state only
\* through the one getVisibleQuestions() call each of them makes; their
\* values are the operators above.
GetVisibleQuestions ==
  LET returned(g) == [outcome |-> "true", template |-> g.template,
                      session |-> g.session]
  IN  Return("getVisibleQuestions",
             returned(getVisibleQuestions(template, session)), NoValue)

CalculateResults ==
  LET returned(r) == Return("calculateResults", r, r.value)
  IN  returned(calculateResults(template, session))

Next ==
  \/ \E response \in Inputs(template) : AnswerQuestion(response)
  \/ SkipQuestion
  \/ PreviousQuestion
  \/ GetVisibleQuestions
  \/ CalculateResults

NoCall == [op |-> "new", outcome |-> "true", value |-> NoValue]

InitWith(templates) ==
  /\ template \in templates
  /\ session = NewSession
  /\ ret = NoCall
  /\ snapshot = NoSnapshot

\* getSession(): a shallow copy of the session.
GetSession ==
  /\ snapshot' = [taken |-> TRUE,
                  current_question |-> session.current_question,
                  responses |-> session.responses,
                  branching_state |-> session.branching_state,
                  sameResponses |-> TRUE]
  /\ ret' = [op |-> "getSession", outcome |-> "true", value |-> NoValue]
  /\ UNCHANGED <<template, session>>

\* restoreSession(snapshot): the session becomes a shallow copy of the
\* snapshot, whose responses array it shares again.
RestoreSession ==
  /\ snapshot.taken
  /\ session' = [current_question |-> snapshot.current_question,
                 responses |-> snapshot.responses,
                 branching_state |-> snapshot.branching_state]
  /\ snapshot' = [snapshot EXCEPT !.sameResponses = TRUE]
  /\ ret' = [op |-> "restoreSession", outcome |-> "true", value |-> NoValue]
  /\ UNCHANGED template


(***************************************************************************)
(* Templates.                                                              *)
(***************************************************************************)
LikertLabels == 6

Who5Max == 5

Who5RiskThreshold == 1

Who5Question(id) ==
  TestQuestion(id, id, 0, Who5Max, 1, "likert", LikertLabels, TRUE, FALSE,
               0, 0, "")

\* TEST_LIBRARY.who5
Who5 ==
  TestTemplate("who5", FALSE,
    <<Who5Question(1), Who5Question(2), Who5Question(3), Who5Question(4),
      Who5Question(5)>>,
    "simple_sum", <<>>, "percentage",
    <<ScoreRange(0, 50, "Poor Wellbeing"),
      ScoreRange(51, 75, "Moderate Wellbeing"),
      ScoreRange(76, 100, "High Wellbeing")>>,
    <<RiskIndicator(<<1, 2, 3, 4, 5>>,
                    <<Who5RiskThreshold, Who5RiskThreshold, Who5RiskThreshold,
                      Who5RiskThreshold, Who5RiskThreshold>>, "high")>>)

\* A question of TEST_LIBRARY.gad7 and TEST_LIBRARY.phq9: four labels, values
\* 0..3.
SymptomQuestion(id, order) ==
  TestQuestion(id, order, 0, 3, 1, "likert", 4, TRUE, FALSE, 0, 0, "")

\* TEST_LIBRARY.gad7: question 18 is an optional choice question of weight 0,
\* shown if question 11 was answered 1 or more.
Gad7 ==
  TestTemplate("gad7", TRUE,
    <<SymptomQuestion(11, 1), SymptomQuestion(12, 2), SymptomQuestion(13, 3),
      SymptomQuestion(14, 4), SymptomQuestion(15, 5), SymptomQuestion(16, 6),
      SymptomQuestion(17, 7),
      TestQuestion(18, 8, 0, 3, 0, "choice", 4, FALSE, FALSE, 11, 1, "")>>,
    "simple_sum", <<>>, "percentage",
    <<ScoreRange(0, 4, "Minimal Anxiety"), ScoreRange(5, 9, "Mild Anxiety"),
      ScoreRange(10, 14, "Moderate Anxiety"),
      ScoreRange(15, 21, "Severe Anxiety")>>,
    <<RiskIndicator(<<11, 12, 13, 17>>, <<2, 2, 2, 2>>, "high")>>)

\* TEST_LIBRARY.phq9
Phq9 ==
  TestTemplate("phq9", TRUE,
    <<SymptomQuestion(21, 1), SymptomQuestion(22, 2), SymptomQuestion(23, 3),
      SymptomQuestion(24, 4), SymptomQuestion(25, 5), SymptomQuestion(26, 6),
      SymptomQuestion(27, 7), SymptomQuestion(28, 8), SymptomQuestion(29, 9)>>,
    "simple_sum", <<>>, "percentage",
    <<ScoreRange(0, 4, "Minimal Depression"),
      ScoreRange(5, 9, "Mild Depression"),
      ScoreRange(10, 14, "Moderate Depression"),
      ScoreRange(15, 19, "Moderately Severe Depression"),
      ScoreRange(20, 27, "Severe Depression")>>,
    <<RiskIndicator(<<29>>, <<1>>, "high"),
      RiskIndicator(<<21, 22>>, <<2, 2>>, "moderate")>>)

\* A question of TEST_LIBRARY.pss: five labels, values 0..4.
PssQuestion(id, order, rev) ==
  TestQuestion(id, order, 0, 4, 1, "likert", 5, TRUE, rev, 0, 0, "")

\* TEST_LIBRARY.pss: question 204 is reverse scored.
Pss ==
  TestTemplate("pss", FALSE,
    <<PssQuestion(201, 1, FALSE), PssQuestion(202, 2, FALSE),
      PssQuestion(203, 3, FALSE), PssQuestion(204, 4, TRUE)>>,
    "simple_sum", <<>>, "percentage",
    <<ScoreRange(0, 13, "Low Stress"), ScoreRange(14, 26, "Moderate Stress"),
      ScoreRange(27, 40, "High Stress")>>,
    <<>>)

\* Three-question templates in the style of TEST_LIBRARY.gad7: likert
\* questions 1 and 2 and a choice question 3, values 0..MaxValue, weight 1;
\* the questions of `optional` are not required, and question d (if d > 0)
\* is shown if question c was answered t or more.
GenericQuestion(id, optional, d, c, t) ==
  TestQuestion(id, id, 0, MaxValue, 1,
               IF id = 3 THEN "choice" ELSE "likert", MaxValue + 1,
               id \notin optional, FALSE,
               IF id = d THEN c ELSE 0, IF id = d THEN t ELSE 0, "")

GenericTemplate(branching, optional, d, c, t) ==
  TestTemplate("generic", branching,
    <<GenericQuestion(1, optional, d, c, t),
      GenericQuestion(2, optional, d, c, t),
      GenericQuestion(3, optional, d, c, t)>>,
    "simple_sum", <<>>, "percentage",
    <<ScoreRange(0, 100, "Any")>>,
    <<RiskIndicator(<<1, 2>>, <<MaxValue, MaxValue>>, "high")>>)

OptionalSets == {{}, {3}, {2, 3}}

\* Branching templates whose conditional question follows the question it
\* depends on, templates without a condition, and templates that carry a
\* condition with branching switched off.
GenericTemplates ==
  { GenericTemplate(TRUE, optional, dc[1], dc[2], t) :
      optional \in OptionalSets,
      dc \in {<<0, 0>>, <<2, 1>>, <<3, 1>>, <<3, 2>>}, t \in 0..MaxValue }
  \cup
  { GenericTemplate(FALSE, optional, d, 1, 1) :
      optional \in OptionalSets, d \in {0, 3} }

Init == InitWith(GenericTemplates)

Spec == Init /\ [][Next]_vars

InitWho5 == InitWith({Who5})

SpecWho5 == InitWho5 /\ [][Next]_vars

\* The library templates scored with simple_sum.  phq9 has nine questions:
\* the answers tried on these templates stop at MaxLibraryAnswer.
InitLibrary == InitWith({Who5, Gad7, Phq9, Pss})

NextLibrary ==
  \/ \E response \in Inputs(template) :
       response.n <= MaxLibraryAnswer /\ AnswerQuestion(response)
  \/ SkipQuestion
  \/ PreviousQuestion
  \/ GetVisibleQuestions
  \/ CalculateResults

SpecLibrary == InitLibrary /\ [][NextLibrary]_vars

\* A template with the dependency chain Q1 -> Q3 -> Q6 of the nested
\* conditional test: question 3 is shown if question 1 was answered t1 or
\* more, question 6 if question 3 was answered t3 or more; question 2, between
\* them, is optional and unconditional.
ChainQuestion(id, showIfId, showIfValue) ==
  TestQuestion(id, id, 0, MaxValue, 1, "likert", MaxValue + 1, id # 2, FALSE,
               showIfId, showIfValue, "")

ChainTemplate(t1, t3) ==
  TestTemplate("chain", TRUE,
    <<ChainQuestion(1, 0, 0), ChainQuestion(2, 0, 0),
      ChainQuestion(3, 1, t1), ChainQuestion(6, 3, t3)>>,
    "simple_sum", <<>>, "percentage",
    <<ScoreRange(0, 100, "Any")>>, <<>>)

ChainTemplates == {ChainTemplate(t1, t3) : t1 \in 1..MaxValue, t3 \in 1..MaxValue}

InitChain == InitWith(ChainTemplates)

SpecChain == InitChain /\ [][Next]_vars

\* Templates for the scoring engine: question 1 is required, question 2 is
\* optional, question 3 is optional, has weight 0 and is shown if question 1
\* was answered 1 or more (as question 18 of TEST_LIBRARY.gad7); values run
\* from min to MaxValue, w1 and w2 are the weights of questions 1 and 2, and
\* the questions of rev are reverse scored.
ScoreQuestion(id, min, weight, rev) ==
  TestQuestion(id, id, min, MaxValue, weight,
               IF id = 3 THEN "choice" ELSE "likert", MaxValue + 1 - min,
               id = 1, id \in rev,
               IF id = 3 THEN 1 ELSE 0, IF id = 3 THEN 1 ELSE 0, "")

ScoreTemplate(type, min, w1, w2, rev) ==
  TestTemplate("score", TRUE,
    <<ScoreQuestion(1, min, w1, rev), ScoreQuestion(2, min, w2, rev),
      ScoreQuestion(3, min, 0, rev)>>,
    type, <<>>, "percentage",
    <<ScoreRange(0, 100, "Any")>>, <<>>)

\* Values from 0 without reverse scoring, or from 1 with questions 1 and 2
\* reverse scored.
ScoreTemplates ==
  { ScoreTemplate(type, mr[1], w1, w2, mr[2]) :
      type \in {"simple_sum", "weighted_sum"},
      mr \in {<<0, {}>>, <<1, {1, 2}>>},
      w1 \in 1..MaxWeight, w2 \in 0..MaxWeight }

InitScore == InitWith(ScoreTemplates)

SpecScore == InitScore /\ [][Next]_vars

\* Templates for the risk assessor: three likert questions, question 2
\* optional, question 3 optional and shown if question 1 was answered 1 or
\* more, with up to MaxIndicators of the risk indicators below, in any order.
RiskQuestion(id) ==
  TestQuestion(id, id, 0, MaxValue, 1, "likert", MaxValue + 1, id = 1, FALSE,
               IF id = 3 THEN 1 ELSE 0, IF id = 3 THEN 1 ELSE 0, "")

IndicatorPool ==
  { RiskIndicator(<<1, 2>>, <<MaxValue, 1>>, "high"),
    RiskIndicator(<<2, 3>>, <<1, 0>>, "moderate"),
    RiskIndicator(<<3, 1>>, <<MaxValue>>, "moderate"),
    RiskIndicator(<<1>>, <<1>>, "low") }

IndicatorLists ==
  UNION { { list \in [1..n -> IndicatorPool] :
              \A i, j \in 1..n : i # j => list[i] # list[j] } :
          n \in 0..MaxIndicators }

RiskTemplates ==
  { TestTemplate("risk", TRUE,
      <<RiskQuestion(1), RiskQuestion(2), RiskQuestion(3)>>,
      "simple_sum", <<>>, "percentage",
      <<ScoreRange(0, 100, "Any")>>, indicators) :
    indicators \in IndicatorLists }

InitRisk == InitWith(RiskTemplates)

SpecRisk == InitRisk /\ [][Next]_vars

(***************************************************************************)
(* Templates for dimensional and categorical scoring, with the dimensions  *)
(* A and B: question 1 counts for A, question 2 (optional) for B, and      *)
(* question 3 (shown if question 1 >= 1) for `third`, which may be a       *)
(* dimension the scoring rules do not list; the questions of rev are       *)
(* reverse scored.                                                         *)
(***************************************************************************)
DimensionQuestion(id, dimension, rev) ==
  TestQuestion(id, id, 0, MaxValue, 1, "likert", MaxValue + 1, id = 1,
               id \in rev, IF id = 3 THEN 1 ELSE 0, IF id = 3 THEN 1 ELSE 0,
               dimension)

DimensionTemplate(type, third, rev) ==
  TestTemplate("dimension", TRUE,
    <<DimensionQuestion(1, "A", rev), DimensionQuestion(2, "B", rev),
      DimensionQuestion(3, third, rev)>>,
    type, <<"A", "B">>, "percentage",
    <<ScoreRange(0, 100, "Any")>>, <<>>)

DimensionTemplates ==
  { DimensionTemplate(type, third, rev) :
      type \in {"dimensional", "categorical"},
      third \in {"A", "C"},
      rev \in {{}, {2}} }

\* Every scoring type, with and without risk indicators.
InitResults ==
  InitWith(ScoreTemplates \cup RiskTemplates \cup DimensionTemplates)

SpecResults == InitResults /\ [][Next]_vars

\* Templates on a 5-point response scale (values 1..PointScale, weight 1, as
\* TEST_LIBRARY.big5): question 1 is of dimension A, question 2 of dimension
\* B and question 3 of dimension `third`; the questions of rev are reverse
\* scored.
FivePointQuestion(id, dimension, rev) ==
  TestQuestion(id, id, 1, PointScale, 1, "likert", PointScale, TRUE,
               id \in rev, 0, 0, dimension)

FivePointTemplate(type, third, rev) ==
  TestTemplate("fivepoint", FALSE,
    <<FivePointQuestion(1, "A", rev), FivePointQuestion(2, "B", rev),
      FivePointQuestion(3, third, rev)>>,
    type, <<"A", "B">>, "percentage", <<ScoreRange(0, 100, "Any")>>, <<>>)

FivePointTemplates ==
  { FivePointTemplate(type, third, rev) :
      type \in {"dimensional", "categorical"},
      third \in {"A", "B"},
      rev \in {{}, {2}} }

InitFivePoint == InitWith(FivePointTemplates)

SpecFivePoint == InitFivePoint /\ [][Next]_vars

(***************************************************************************)
(* Templates of any shape: the questions are listed by id, their order     *)
(* values need not ascend, and a question may be shown on any question: an *)
(* earlier one, a later one, itself, or one the template does not have.    *)
(* Such a template lets a question be answered more than once, so the      *)
(* calls that record a response are cut off at MaxResponses responses.     *)
(***************************************************************************)
WildQuestion(id, order, showIfId) ==
  TestQuestion(id, order, 0, 1, 1, "likert", 2, id # 2, FALSE, showIfId, 1, "")

WildTemplate(orders, showIf) ==
  TestTemplate("wild", TRUE,
               [i \in 1..3 |-> WildQuestion(i, orders[i], showIf[i])],
               "simple_sum", <<>>, "percentage",
               <<ScoreRange(0, 100, "Any")>>, <<>>)

WildOrders == {<<1, 2, 3>>, <<3, 1, 2>>}

WildTemplates ==
  {WildTemplate(orders, showIf) :
     orders \in WildOrders, showIf \in [1..3 -> 0..4]}

InitWild == InitWith(WildTemplates)

BelowMaxResponses == Len(session.responses) < MaxResponses

NextWild ==
  \/ BelowMaxResponses
       /\ \E response \in Inputs(template) : AnswerQuestion(response)
  \/ BelowMaxResponses /\ SkipQuestion
  \/ PreviousQuestion
  \/ GetVisibleQuestions
  \/ CalculateResults

SpecWild == InitWild /\ [][NextWild]_vars

\* The same templates answered forwards only: no previousQuestion call.
NextForward ==
  \/ BelowMaxResponses
       /\ \E response \in Inputs(template) : AnswerQuestion(response)
  \/ BelowMaxResponses /\ SkipQuestion
  \/ GetVisibleQuestions
  \/ CalculateResults

SpecForward == InitWild /\ [][NextForward]_vars

\* The calls with getSession() and restoreSession() among them.  A restored
\* session can hold any number of responses, so the calls that record one
\* are cut off at MaxSharedResponses responses.
BelowMaxSharedResponses == Len(session.responses) < MaxSharedResponses

NextShare ==
  \/ BelowMaxSharedResponses
       /\ \E response \in Inputs(template) : AnswerQuestion(response)
  \/ BelowMaxSharedResponses /\ SkipQuestion
  \/ PreviousQuestion
  \/ GetVisibleQuestions
  \/ CalculateResults
  \/ GetSession
  \/ RestoreSession

SpecShare == InitChain /\ [][NextShare]_vars

\* Five-question templates with follow-up questions: questions 1, 2 and 3 are
\* unconditional, question 4 is shown if question p4 was answered 1 or more
\* and question 5 if question p5 was; question 2 is optional.
FollowUpQuestion(id, showIfId) ==
  TestQuestion(id, id, 0, 1, 1, "likert", 2, id # 2, FALSE, showIfId, 1, "")

FollowUpTemplate(p4, p5) ==
  TestTemplate("followup", TRUE,
    <<FollowUpQuestion(1, 0), FollowUpQuestion(2, 0), FollowUpQuestion(3, 0),
      FollowUpQuestion(4, p4), FollowUpQuestion(5, p5)>>,
    "simple_sum", <<>>, "percentage", <<ScoreRange(0, 100, "Any")>>, <<>>)

FollowUpTemplates == {FollowUpTemplate(p4, p5) : p4 \in 1..3, p5 \in 1..3}

InitFollowUp == InitWith(FollowUpTemplates)

SpecFollowUp == InitFollowUp /\ [][Next]_vars

(***************************************************************************)
(* The TestTaker page (pages/TestTaker.tsx) driving the engine.  ret is    *)
(* the last handler of the page and what the page shows after it: the      *)
(* current question ("question"), the results ("results"), the error       *)
(* message ("error"), or the processing notice shown when there is neither *)
(* a question nor results ("complete").  The question the page holds is    *)
(* the one getCurrentQuestion() returned last, which the engine returns    *)
(* again until the next handler.                                           *)
(***************************************************************************)
\* The values QuestionComponent can submit for a question: the index of an
\* option (likert, choice), a slider position (scale), 1 or 0 (boolean).
PageInputs(question) ==
  CASE question.question_type \in {"likert", "choice"} ->
         IF question.has_options
         THEN {NumberValue(i) : i \in 0..(question.options_length - 1)}
         ELSE {}
    [] question.question_type = "scale" ->
         {NumberValue(i) : i \in question.min_value..question.max_value}
    [] question.question_type = "boolean" -> {NumberValue(0), NumberValue(1)}
    [] OTHER -> {}

PageShows(outcome, r) ==
  [outcome |-> outcome, value |-> NoValue,
   template |-> r.template, session |-> r.session]

\* Rendering a question calls getProgress() and, in getQuestionNumber(),
\* getVisibleQuestions().
pageRender(r) ==
  LET rendered(g) == [r EXCEPT !.template = g.template, !.session = g.session]
      numbered(g) == rendered(getVisibleQuestions(g.template, g.session))
  IN  IF r.outcome = "question"
      THEN numbered(getProgress(r.template, r.session))
      ELSE r

pageQuestion(t, s) ==
  LET shown(cur) == PageShows(IF cur.isNull THEN "complete" ELSE "question",
                              cur)
  IN  pageRender(shown(getCurrentQuestion(t, s)))

handleResponse(t, s, response) ==
  LET finished(res) ==
        IF res.outcome = "true"
        THEN [outcome |-> "results", value |-> res.value,
              template |-> res.template, session |-> res.session]
        ELSE PageShows("error", res)
      checked(c) ==
        IF c.value THEN finished(calculateResults(c.template, c.session))
        ELSE pageQuestion(c.template, c.session)
      answered(a) ==
        IF a.outcome # "true" THEN PageShows("error", a)
        ELSE checked(isComplete(a.template, a.session))
  IN  answered(answerQuestion(t, s, response))

handleSkip(t, s) ==
  LET skipped(k) ==
        IF k.outcome # "true" THEN PageShows("error", k)
        ELSE pageQuestion(k.template, k.session)
  IN  skipped(skipQuestion(t, s))

handlePrevious(t, s) ==
  LET moved(p) ==
        IF p.outcome # "true" THEN PageShows("question", p)
        ELSE pageQuestion(p.template, p.session)
  IN  moved(previousQuestion(t, s))

PageOps ==
  {"mount", "handleResponse", "handleSkip", "handlePrevious", "handleRestart"}

QuestionShown == ret.op \in PageOps /\ ret.outcome = "question"

\* The effect that creates the engine and shows its first question.
Mount ==
  /\ ret.op = "new"
  /\ LET shown(r) == Return("mount", r, r.value)
     IN  shown(pageQuestion(template, session))

HandleResponse ==
  /\ QuestionShown
  /\ LET shown(r) == Return("handleResponse", r, r.value)
         submit(cur) ==
           \E response \in PageInputs(cur.value) :
             /\ response.n <= MaxLibraryAnswer
             /\ shown(handleResponse(template, session, response))
     IN  submit(getCurrentQuestion(template, session))

\* The Skip button is rendered for a question that is not required.
HandleSkip ==
  /\ QuestionShown
  /\ LET shown(r) == Return("handleSkip", r, r.value)
         offered(cur) ==
           ~cur.value.required /\ shown(handleSkip(template, session))
     IN  offered(getCurrentQuestion(template, session))

\* The Previous button is disabled at the first question.
HandlePrevious ==
  /\ QuestionShown
  /\ session.current_question # 0
  /\ LET shown(r) == Return("handlePrevious", r, r.value)
     IN  shown(handlePrevious(template, session))

\* The results view restarts the test on a new engine.
HandleRestart ==
  /\ ret.op \in PageOps
  /\ ret.outcome = "results"
  /\ LET shown(r) == Return("handleRestart", r, r.value)
     IN  shown(pageQuestion(template, NewSession))

NextPage ==
  \/ Mount
  \/ HandleResponse
  \/ HandleSkip
  \/ HandlePrevious
  \/ HandleRestart

\* The page on the library templates and on templates with an optional
\* question between required ones.
InitPage == InitWith({Who5, Gad7, Phq9, Pss} \cup ChainTemplates)

SpecPage == InitPage /\ [][NextPage]_vars

(***************************************************************************)
(* Rule validator and template admission (spec.md 4.7, 6 and 7).  The      *)
(* repository documents them (branching_logic_implementation.md,           *)
(* validate_branching_rules and has_circular_dependency) but their code is *)
(* not among the sources, so they are modelled from the specification: a   *)
(* template is validated before it is put into service and start creates   *)
(* an attempt only for a template whose report is valid.  The list of      *)
(* error strings is modelled as a set of records carrying what each string *)
(* names.                                                                  *)
(***************************************************************************)
QuestionIds(t) == {t.questions[i].id : i \in 1..Len(t.questions)}

\* The id of the question that question id is shown on, 0 for none.
DependsOn(t, id) ==
  LET qi == FindQuestion(t, id)
  IN  IF qi = 0 THEN 0 ELSE t.questions[qi].show_if_question_id

\* Mutation of has_circular_dependency: only a question shown on itself is
\* found.
has_self_dependency(t, question_id, recursion_stack) ==
  IF question_id = 0 \/ question_id \notin QuestionIds(t)
  THEN [found |-> FALSE, ids |-> {}]
  ELSE IF DependsOn(t, question_id) = question_id
       THEN [found |-> TRUE, ids |-> {question_id}]
       ELSE [found |-> FALSE, ids |-> {}]

\* Depth-first search along the dependencies of question_id: a question met
\* again while on the recursion stack closes a cycle, whose questions are
\* the stack from that question on.
RECURSIVE has_circular_dependency(_, _, _)
has_circular_dependency(t, question_id, recursion_stack) ==
  IF question_id = 0 \/ question_id \notin QuestionIds(t)
  THEN [found |-> FALSE, ids |-> {}]
  ELSE IF \E k \in 1..Len(recursion_stack) : recursion_stack[k] = question_id
       THEN LET k == CHOOSE i \in 1..Len(recursion_stack) :
                        recursion_stack[i] = question_id
            IN  [found |-> TRUE,
                 ids |-> {recursion_stack[i] : i \in k..Len(recursion_stack)}]
       ELSE has_circular_dependency(t, DependsOn(t, question_id),
                                    Append(recursion_stack, question_id))

validate_template(t) ==
  LET circular ==
        {[type |-> "circular_dependency", question_ids |-> c.ids] :
           c \in {d \in {has_circular_dependency(t, id, <<>>) :
                            id \in QuestionIds(t)} : d.found}}
      invalid ==
        {[type |-> "invalid_reference", question_ids |-> {id}] :
           id \in {i \in QuestionIds(t) :
                     /\ DependsOn(t, i) # 0
                     /\ DependsOn(t, i) \notin QuestionIds(t)}}
  IN  [is_valid |-> circular \cup invalid = {},
       errors |-> circular \cup invalid]

\* A template offered for admission; no attempt exists yet.
Offered == [op |-> "offer", outcome |-> "true", value |-> NoValue]

InitAdmit ==
  /\ template \in WildTemplates
  /\ session = NewSession
  /\ ret = Offered
  /\ snapshot = NoSnapshot

\* An attempt exists once start has succeeded.
Started ==
  /\ ret.op \notin {"offer", "validate_template"}
  /\ ~(ret.op = "start" /\ ret.outcome = "false")

ValidateTemplate ==
  LET reported(report) ==
        /\ ret' = [op |-> "validate_template",
                   outcome |-> IF report.is_valid THEN "true" ELSE "false",
                   value |-> report]
        /\ UNCHANGED <<template, session, snapshot>>
  IN  ~Started /\ reported(validate_template(template))

\* start(template_key): a new attempt on a template that passed validation,
\* TemplateValidationError on one that failed it.
Start ==
  /\ ret.op = "validate_template"
  /\ ret' = [op |-> "start", outcome |-> ret.outcome, value |-> ret.value]
  /\ session' = NewSession
  /\ UNCHANGED <<template, snapshot>>

NextAdmit ==
  \/ ValidateTemplate
  \/ Start
  \/ Started /\ NextWild

SpecAdmit == InitAdmit /\ [][NextAdmit]_vars

(***************************************************************************)
(* Properties.                                                             *)
(***************************************************************************)
QuestionIndices == 1..Len(template.questions)

VisibleIds ==
  LET visible == getVisibleQuestions(template, session).value
  IN  {visible[i].id : i \in 1..Len(visible)}

CurrentIsNull == getCurrentQuestion(template, session).isNull

Called(op, outcome) == ret.op = op /\ ret.outcome = outcome

\* C1: in every reachable session getCurrentQuestion() returns null if and
\* only if isComplete() returns true.
C1_NullIffComplete ==
  CurrentIsNull <=> isComplete(template, session).value

\* The condition question of q has a non-skipped response >= show_if_value.
C2_ConditionMet(q) ==
  \E j \in 1..Len(session.responses) :
    /\ session.responses[j].question_id = q.show_if_question_id
    /\ ~session.responses[j].skipped
    /\ Geq(ToNumber(session.responses[j].value), Num(q.show_if_value))

\* C2: with branching enabled a question is visible if and only if it has no
\* show_if condition or its condition question has a recorded response that
\* is not skipped and whose value is >= show_if_value.
C2_VisibleIffConditionAnswered ==
  template.branching_enabled =>
    \A i \in QuestionIndices :
      LET q == template.questions[i]
      IN  q.id \in VisibleIds <=>
            (q.show_if_question_id = 0 \/ C2_ConditionMet(q))

\* The recorded answer to question id (the first one, if there are several).
HasAnswer(id) ==
  \E j \in 1..Len(session.responses) :
    session.responses[j].question_id = id /\ ~session.responses[j].skipped

AnswerTo(id) ==
  LET found == {j \in 1..Len(session.responses) :
                  /\ session.responses[j].question_id = id
                  /\ ~session.responses[j].skipped}
  IN  ToNumber(session.responses[CHOOSE j \in found : \A k \in found : j <= k].value)

ShowIfValueOf(id) ==
  template.questions[FindQuestion(template, id)].show_if_value

FractionEq(x, y) ==
  x.kind = y.kind /\ (x.kind = "fin" => x.num * y.den = y.num * x.den)

QuestionOf(r) == template.questions[FindQuestion(template, r.question_id)]

\* What a recorded response adds to the raw score, and the sum over them.
C4_Contribution(r) ==
  LET q == QuestionOf(r)
      value == ToNumber(r.value).n
  IN  IF r.skipped \/ ~(q.weight > 0) THEN 0
      ELSE IF q.reverse_scored
           THEN (q.max_value - value + q.min_value) * q.weight
           ELSE value * q.weight

C4_ExpectedRaw ==
  SumSeq([j \in 1..Len(session.responses) |->
            C4_Contribution(session.responses[j])])

\* C4: for simple_sum and weighted_sum the raw score of a completed attempt is
\* the sum, over the recorded responses that are not skipped and whose
\* question has weight > 0, of effective_value * weight, effective_value
\* being max_value - value + min_value for a reverse scored question and
\* value otherwise.
C4_RawScoreIsWeightedSum ==
  Called("calculateResults", "true") =>
    ret.value.raw_score = Fraction(C4_ExpectedRaw, 1)

C4_Witness ==
  /\ Called("calculateResults", "true")
  /\ \E j \in 1..Len(session.responses) : session.responses[j].skipped
  /\ \E j \in 1..Len(session.responses) :
       /\ ~session.responses[j].skipped
       /\ QuestionOf(session.responses[j]).weight = 0
  /\ \E j \in 1..Len(session.responses) :
       /\ ~session.responses[j].skipped
       /\ QuestionOf(session.responses[j]).reverse_scored
       /\ QuestionOf(session.responses[j]).weight > 1
  /\ ret.value.raw_score.num > 0

\* The sum over all questions of max_value * weight.
C5_MaxPossible ==
  SumSeq([i \in QuestionIndices |->
            template.questions[i].max_value * template.questions[i].weight])

\* C5: with percentage normalization the normalized score is
\* raw / max_possible * 100, max_possible being the sum over all questions of
\* the template of max_value * weight.
C5_NormalizedOverWeightedMax ==
  (/\ Called("calculateResults", "true")
   /\ template.scoring_rules.normalization_method = "percentage")
    => FractionEq(ret.value.normalized_score,
                  DivTimes(Num(ret.value.raw_score.num), C5_MaxPossible, 100))

\* Every question of the template answered v, in order.
AllAnswered(v) ==
  /\ Len(session.responses) = Len(template.questions)
  /\ \A j \in 1..Len(session.responses) :
       session.responses[j] = TestResponse(j, NumberValue(v), FALSE)

\* C6: on WHO-5, answering 0 to all five questions gives raw score 0,
\* normalized score 0 and risk level high; answering 5 to all five gives raw
\* score 25, normalized score 100 and risk level low.
C6_Who5EndToEnd ==
  Called("calculateResults", "true") =>
    /\ AllAnswered(0) =>
         /\ ScoreEq(ret.value.raw_score, 0)
         /\ ScoreEq(ret.value.normalized_score, 0)
         /\ ret.value.risk_level = "high"
    /\ AllAnswered(Who5Max) =>
         /\ ScoreEq(ret.value.raw_score, Who5Max * Len(template.questions))
         /\ ScoreEq(ret.value.normalized_score, 100)
         /\ ret.value.risk_level = "low"

\* The indicators of the template, and whether one of a given level fires.
Indicators == template.interpretation_guide.risk_indicators

Fired(level) ==
  \E i \in 1..Len(Indicators) :
    Indicators[i].risk_level = level /\ riskTriggered(session, Indicators[i])

\* C7: the risk level returned by assessRisk is the highest level among the
\* indicators that fire: high if an indicator of level high fires, otherwise
\* moderate if one of level moderate fires, otherwise low, whatever the order
\* of the indicators.
C7_RiskIsHighestFired ==
  Called("calculateResults", "true") =>
    ret.value.risk_level =
      IF Fired("high") THEN "high"
      ELSE IF Fired("moderate") THEN "moderate" ELSE "low"

C7_Witness ==
  /\ Called("calculateResults", "true")
  /\ Len(Indicators) >= 2
  /\ Indicators[1].risk_level = "moderate"
  /\ riskTriggered(session, Indicators[1])
  /\ Indicators[2].risk_level = "high"
  /\ riskTriggered(session, Indicators[2])
  /\ ret.value.risk_level = "high"

\* The threshold at the position of a question in question_ids, and firing
\* as decided with it.
C8_AlignedThreshold(indicator, k) ==
  IF k <= Len(indicator.threshold_values)
  THEN indicator.threshold_values[k]
  ELSE indicator.threshold_values[1]

C8_ClaimedFires(indicator) ==
  \E k \in 1..Len(indicator.question_ids) :
    \E j \in 1..Len(session.responses) :
      /\ session.responses[j].question_id = indicator.question_ids[k]
      /\ ~session.responses[j].skipped
      /\ Geq(ToNumber(session.responses[j].value),
             Num(C8_AlignedThreshold(indicator, k)))

\* C8: a risk indicator fires if and only if, for some position k of its
\* question_ids, the non-skipped response to question_ids[k] has a value >=
\* threshold_values[k] (threshold_values[0] when the list has no entry at k).
C8_FiresOnAlignedThreshold ==
  Called("calculateResults", "true") =>
    \A i \in 1..Len(Indicators) :
      riskTriggered(session, Indicators[i]) <=> C8_ClaimedFires(Indicators[i])

\* C9: an answerQuestion call that throws for an invalid value leaves the
\* whole session as it was: responses, current_question and every field of
\* branching_state.
C9_InvalidAnswerLeavesSession ==
  [][(ret'.op = "answerQuestion" /\ ret'.outcome = "throw")
       => session' = session]_vars

\* The constraint of question q on the value of response r.
C10_Satisfies(q, r) ==
  LET value == ToNumber(r.value)
  IN  IF q.question_type = "choice"
      THEN Geq(value, Num(0)) /\ Lt(value, Num(q.options_length))
      ELSE Geq(value, Num(q.min_value)) /\ Leq(value, Num(q.max_value))

\* C10: every non-skipped recorded response satisfies the constraint of its
\* question: min_value <= value <= max_value for likert, boolean and scale
\* questions, 0 <= value < number of options for choice questions, for
\* numbers and numeric strings alike.
C10_RecordedResponsesValid ==
  \A j \in 1..Len(session.responses) :
    LET r == session.responses[j]
        qi == FindQuestion(template, r.question_id)
    IN  ~r.skipped => (qi # 0 /\ C10_Satisfies(template.questions[qi], r))

\* C11: an answerQuestion call made when getCurrentQuestion() is null returns
\* false and leaves responses, current_question and branching_state as they
\* were.
C11_AnswerAtNullIsNoOp ==
  [][(ret'.op = "answerQuestion" /\ getCurrentQuestion(template, session).isNull)
       => /\ ret'.outcome = "false"
          /\ session'.responses = session.responses
          /\ session'.current_question = session.current_question
          /\ session'.branching_state = session.branching_state]_vars

\* A response with skipped = true to a required question.
SkippedRequired ==
  \E j \in 1..Len(session.responses) :
    /\ session.responses[j].skipped
    /\ FindQuestion(template, session.responses[j].question_id) # 0
    /\ QuestionOf(session.responses[j]).required

\* C12: skipQuestion on a required current question returns false and leaves
\* responses and current_question as they were, and no recorded response with
\* skipped = true refers to a required question.
C12_SkipRequiredRejected ==
  /\ ~SkippedRequired
  /\ LET cur == getCurrentQuestion(template, session)
         r == skipQuestion(template, session)
     IN  (~cur.isNull /\ cur.value.required)
           => /\ r.outcome = "false"
              /\ r.session.responses = session.responses
              /\ r.session.current_question = session.current_question

\* A skipQuestion call on a required question has just been rejected, with
\* responses recorded and a skipped response to an optional question among
\* them.
C12_Witness ==
  /\ Called("skipQuestion", "false")
  /\ ~CurrentIsNull
  /\ getCurrentQuestion(template, session).value.required
  /\ \E j \in 1..Len(session.responses) : session.responses[j].skipped

\* C13: current_question stays between 0 and the length of
\* getVisibleQuestions(), and getProgress() is between 0 and 100.
C13_PointerWithinVisible ==
  /\ session.current_question >= 0
  /\ session.current_question <= Len(getVisibleQuestions(template, session).value)
  /\ getProgress(template, session).value \in 0..100

\* C14: session.responses holds at most one response per question id.
C14_OneResponsePerQuestion ==
  \A i, j \in 1..Len(session.responses) :
    session.responses[i].question_id = session.responses[j].question_id
      => i = j

\* No question of the template has a show_if condition.
NoConditions ==
  \A i \in QuestionIndices : template.questions[i].show_if_question_id = 0

\* C17: for a template with no branching conditions getVisibleQuestions()
\* returns all questions of the template, in ascending order of their order
\* field, in every reachable state.
C17_AllQuestionsInOrder ==
  NoConditions =>
    LET visible == getVisibleQuestions(template, session).value
    IN  /\ Len(visible) = Len(template.questions)
        /\ SeqToSet(visible) = SeqToSet(template.questions)
        /\ \A i, j \in 1..Len(visible) :
             i < j => visible[i].order <= visible[j].order

\* A template without conditions whose questions were listed by id and not by
\* order (the sort has moved them), with a response and a skipped response
\* recorded.
C17_Witness ==
  /\ NoConditions
  /\ \E i, j \in QuestionIndices :
       i < j /\ template.questions[i].id > template.questions[j].id
  /\ Called("answerQuestion", "true")
  /\ \E j \in 1..Len(session.responses) : session.responses[j].skipped

\* C19: no call changes the template: its questions array holds the same
\* questions in the same array order after the call as before it.
C19_TemplateUnchanged ==
  [][template'.questions = template.questions]_vars

\* C15: for simple_sum and weighted_sum scoring with percentage
\* normalization, the normalized score of every attempt for which
\* calculateResults succeeds is between 0 and 100 inclusive.
C15_NormalizedWithinRange ==
  (/\ Called("calculateResults", "true")
   /\ template.scoring_rules.type \in {"simple_sum", "weighted_sum"}
   /\ template.scoring_rules.normalization_method = "percentage")
    => /\ ScoreGeq(ret.value.normalized_score, 0)
       /\ ScoreLeq(ret.value.normalized_score, 100)

\* Two different questions of the template, each shown on the other.
MutualShowIf ==
  \E i, j \in QuestionIndices :
    /\ i # j
    /\ template.questions[i].show_if_question_id = template.questions[j].id
    /\ template.questions[j].show_if_question_id = template.questions[i].id

C18_ScoringDeterministic ==
  Called("calculateResults", "true") =>
    LET again == calculateResults(template, session)
    IN  /\ again.outcome = "true"
        /\ again.value.raw_score = ret.value.raw_score
        /\ again.value.normalized_score = ret.value.normalized_score
        /\ again.value.dimension_scores = ret.value.dimension_scores
        /\ again.value.interpretation = ret.value.interpretation
        /\ again.value.risk_level = ret.value.risk_level

\* Results of a dimensional template with a reverse scored answer counted,
\* a dimension score above 0, and a hidden question that the call pushed
\* onto skipped_questions.
C18_Witness ==
  /\ Called("calculateResults", "true")
  /\ template.scoring_rules.type = "dimensional"
  /\ \E j \in 1..Len(session.responses) :
       /\ ~session.responses[j].skipped
       /\ QuestionOf(session.responses[j]).reverse_scored
  /\ ret.value.dimension_scores["B"].n > 0
  /\ session.branching_state.skipped_questions # <<>>

\* C20: sessions share no mutable state: once getSession() has returned a
\* session (kept by the caller or given to another engine through
\* restoreSession), no answerQuestion, skipQuestion or previousQuestion call
\* on the engine changes the responses or the branching_state held in it.
C20_SnapshotUnchanged ==
  [][(snapshot.taken
        /\ ret'.op \in {"answerQuestion", "skipQuestion", "previousQuestion"})
     => /\ snapshot'.responses = snapshot.responses
        /\ snapshot'.branching_state = snapshot.branching_state]_vars

\* C21: on the library templates scored with simple_sum and percentage
\* normalization, the normalized score of every completed attempt lies in a
\* score range of the interpretation guide: the interpretation is never the
\* Unknown fallback.
C21_RangesExhaustive ==
  (/\ Called("calculateResults", "true")
   /\ template.key \in {"who5", "gad7", "phq9", "pss"})
    => /\ ret.value.interpretation # "Unknown"
       /\ \E i \in 1..Len(template.interpretation_guide.score_ranges) :
            LET range == template.interpretation_guide.score_ranges[i]
            IN  /\ ScoreGeq(ret.value.normalized_score, range.min_score)
                /\ ScoreLeq(ret.value.normalized_score, range.max_score)

\* C22: dimensional and categorical scoring of a completed attempt on a
\* template whose questions all use a 5-point scale (values 1..5, weight 1),
\* answered with numbers of the scale: the overall normalized score lies
\* between 0 and 100.
C22_FivePointWithinRange ==
  (/\ Called("calculateResults", "true")
   /\ template.scoring_rules.type \in {"dimensional", "categorical"}
   /\ \A i \in QuestionIndices :
        /\ template.questions[i].min_value = 1
        /\ template.questions[i].max_value = PointScale
        /\ template.questions[i].weight = 1
   /\ \A j \in 1..Len(session.responses) :
        /\ ~session.responses[j].value.str
        /\ session.responses[j].value.n \in 1..PointScale)
    => /\ ScoreGeq(ret.value.normalized_score, 0)
       /\ ScoreLeq(ret.value.normalized_score, 100)

\* C23: getVisibleQuestions, getCurrentQuestion, isComplete, getProgress and
\* calculateResults have no side effect: a call leaves responses,
\* current_question and branching_state (skipped_questions included) as
\* they were.
C23_ReadOnlyCalls ==
  [][ret'.op \in {"getVisibleQuestions", "calculateResults"}
       => /\ session'.responses = session.responses
          /\ session'.current_question = session.current_question
          /\ session'.branching_state = session.branching_state]_vars

\* C24: branching_state.skipped_questions is a set of skipped question ids:
\* no id occurs in it more than once, and none is the id of a question of
\* the current visible set.
C24_SkippedIsSet ==
  LET skipped == session.branching_state.skipped_questions
  IN  /\ \A i, j \in 1..Len(skipped) : skipped[i] = skipped[j] => i = j
      /\ \A i \in 1..Len(skipped) : skipped[i] \notin VisibleIds

\* C25: pointer consistency: the question ids of session.responses are
\* exactly the first current_question elements of getVisibleQuestions(), in
\* that order.
C25_ResponsesArePrefix ==
  LET visible == getVisibleQuestions(template, session).value
  IN  /\ session.current_question <= Len(visible)
      /\ Len(session.responses) = session.current_question
      /\ \A i \in 1..Len(session.responses) :
           i <= Len(visible)
             => session.responses[i].question_id = visible[i].id

\* C26: every attempt ends: with accepted answerQuestion and skipQuestion
\* calls only, a template of N questions takes at most N of them, each
\* advances the position by one, and after N of them getCurrentQuestion()
\* is null; also on templates with circular or dangling show_if references.
C26_AttemptEnds ==
  /\ session.current_question = Len(session.responses)
  /\ Len(session.responses) <= Len(template.questions)
  /\ session.current_question <= Len(getVisibleQuestions(template, session).value)
  /\ Len(session.responses) = Len(template.questions) => CurrentIsNull

\* A template with a two-question cycle whose attempt ended with an accepted
\* answer.
C26_Witness ==
  /\ MutualShowIf
  /\ Called("answerQuestion", "true")
  /\ CurrentIsNull

\* The session and the current question after previousQuestion() called
\* right after the call that returned `called`, against the session s before.
Undone(s, called) ==
  LET same(before, back, after) ==
        /\ back.outcome = "true"
        /\ back.session.responses = s.responses
        /\ back.session.current_question = s.current_question
        /\ back.session.branching_state.active_conditions
             = s.branching_state.active_conditions
        /\ ~after.isNull
        /\ after.value.id = before.value.id
      undo(back) ==
        same(getCurrentQuestion(template, s), back,
             getCurrentQuestion(back.template, back.session))
  IN  called.outcome = "true"
        => undo(previousQuestion(called.template, called.session))

\* C27: previousQuestion undoes the last answer: when answerQuestion(v) or
\* skipQuestion() succeeds and previousQuestion() is called right after it,
\* responses, current_question and active_conditions are what they were
\* before the answer and getCurrentQuestion() returns the same question.
C27_PreviousUndoesAnswer ==
  /\ \A response \in Inputs(template) :
       Undone(session, answerQuestion(template, session, response))
  /\ Undone(session, skipQuestion(template, session))

\* C28: progress never goes backwards while answering: an accepted
\* answerQuestion or skipQuestion call leaves getProgress() greater than or
\* equal to its value before the call.
C28_ProgressMonotone ==
  [][(ret'.op \in {"answerQuestion", "skipQuestion"} /\ ret'.outcome = "true")
       => getProgress(template', session').value
            >= getProgress(template, session).value]_vars

\* C29: when the TestTaker page drives the engine, results are computed
\* only once every question of the visible set, optional ones included, has
\* been presented and answered or skipped: getCurrentQuestion() is null
\* when the page shows results.
C29_ResultsOnlyAtEnd ==
  (ret.op = "handleResponse" /\ ret.outcome = "results")
    => /\ CurrentIsNull
       /\ \A id \in VisibleIds :
            \E j \in 1..Len(session.responses) :
              session.responses[j].question_id = id

\* C30: conditional_paths reflects the current responses: the edge a->b is
\* in conditional_paths only if question a has a recorded response whose
\* value satisfies the show_if condition of question b.
C30_PathsReflectResponses ==
  LET paths == session.branching_state.conditional_paths
      satisfies(r, b) ==
        LET qi == FindQuestion(template, b)
        IN  /\ qi # 0
            /\ evaluateBranchingCondition(r.value,
                 IF template.questions[qi].has_show_if_value
                 THEN template.questions[qi].show_if_value ELSE 0)
  IN  \A k \in 1..Len(paths) :
        \E j \in 1..Len(session.responses) :
          /\ session.responses[j].question_id = paths[k][1]
          /\ ~session.responses[j].skipped
          /\ satisfies(session.responses[j], paths[k][2])

====
